---------------------------- MODULE Spec2Model ----------------------------
(***************************************************************************)
(* The message-resolution pipeline of the Slack Q&A bot.                   *)
(*                                                                         *)
(*   src/app.py   QADatabase.load_data, QADatabase.find_answer,            *)
(*                get_llm_answer, message                                  *)
(*   src/bot.py   getChatGptResponse, message                              *)
(*                                                                         *)
(* A Python str is a sequence of one-character strings (a fixed text such  *)
(* as the disclaimer is one element).  Python's None and a missing dict    *)
(* key are the one-element sequences None and Missing, whose element is    *)
(* not a character of any text.  A Slack timestamp is a positive number,   *)
(* an absent thread_ts is NoThread.                                        *)
(*                                                                         *)
(* The transport (slackeventsapi on Flask) runs one handler invocation per *)
(* delivered event, concurrently; invs[i] is the i-th invocation, pending  *)
(* the deliveries still to come.                                           *)
(***************************************************************************)
EXTENDS Naturals, Sequences, FiniteSets

VARIABLES
    program,    \* which of the two programs runs: "app" (app.py), "bot" (bot.py)
    qa_file,    \* the file qa.json as the program finds it at start
    qa_data,    \* QADatabase.qa_data, loaded once at start
    pending,    \* events the transport has still to deliver, in order
    invs        \* the handler invocations started so far

vars == <<program, qa_file, qa_data, pending, invs>>

----------------------------------------------------------------------------
(* Bounds *)

\* longest question text / knowledge-base question
MaxLen == 2
\* most entries of the knowledge base
MaxKB == 2
\* most deliveries of messages written by users (first deliveries and
\* redeliveries together)
MaxEvents == 2

----------------------------------------------------------------------------
(* Python values *)

None == <<"#None">>
Missing == <<"#missing">>
NoThread == 0

\* bool(v) of a str or None
Truthy(v) == v # None /\ v # <<>>

\* str(v) inside an f-string
pystr(v) == IF v = None THEN <<"N", "o", "n", "e">> ELSE v

\* dict.get(key, default) on the value stored under the key
dict_get(v, default) == IF v = Missing THEN default ELSE v

SENTINEL_TEXT == "No relevant answer found."
Sentinel == <<SENTINEL_TEXT>>

lower_char(c) ==
    CASE c = "A" -> "a"
      [] c = SENTINEL_TEXT -> "no relevant answer found."
      [] OTHER -> c

\* str.lower
lower(s) == [i \in 1..Len(s) |-> lower_char(s[i])]

is_space(c) == c = " "

RECURSIVE lstrip(_)
lstrip(s) ==
    IF s = <<>> THEN s
    ELSE IF is_space(Head(s)) THEN lstrip(Tail(s)) ELSE s

RECURSIVE rstrip(_)
rstrip(s) ==
    IF s = <<>> THEN s
    ELSE IF is_space(s[Len(s)]) THEN rstrip(SubSeq(s, 1, Len(s) - 1)) ELSE s

\* str.strip
strip(s) == rstrip(lstrip(s))

----------------------------------------------------------------------------
(* QADatabase *)

\* what open and json.load raise in load_data
LoadFailures == {"FileNotFoundError", "JSONDecodeError", "Exception"}

\* load_data with a failure ignored: whatever entries the file holds are kept
load_data_partial(file) == file.data

\* load_data: the parsed entries, or [] when open or json.load raised
load_data(file) == IF file.kind \in LoadFailures THEN <<>> ELSE file.data

\* question.lower().strip()
normalize(s) == strip(lower(s))

\* find_from with the loop run to its end: the last matching entry answers
RECURSIVE find_from_last(_, _, _)
find_from_last(data, question, i) ==
    IF i > Len(data) THEN None
    ELSE LET later == find_from_last(data, question, i + 1)
         IN  IF later # None THEN later
             ELSE IF normalize(dict_get(data[i].question, <<>>)) = question
                  THEN dict_get(data[i].answer, None)
                  ELSE None

\* the loop of find_answer from entry i on
RECURSIVE find_from(_, _, _)
find_from(data, question, i) ==
    IF i > Len(data) THEN None
    ELSE IF normalize(dict_get(data[i].question, <<>>)) = question
         THEN dict_get(data[i].answer, None)
         ELSE find_from(data, question, i + 1)

find_answer(data, question) == find_from(data, normalize(question), 1)

----------------------------------------------------------------------------
(* The handlers *)

BOT_ID == "UBOT"
MonitoredChannels == {"C088ZPE8WTF", "C07PZNMBPBN"}
BotChannel == "#high-seas-help-test"

DISCLAIMER == "\n This Anwer is from LLM, it may be incorrect or misleading or wrong. contact @A_TechyBoy for more info or to give any suggestions.\n\n for more info check https://github.com/A-TechyBoy/DV"
APOLOGY == "Sorry, I encountered an error while processing your request."

\* the code fence (three backquotes) around the answer
FENCE == "[fence]"

\* f"[fence] {answer} [fence]\n This Anwer ..."
answer_text(answer) == <<FENCE, " ">> \o pystr(answer) \o <<" ", FENCE, DISCLAIMER>>
apology_text == <<APOLOGY>>

\* bot.py
getChatGptResponse(text) == text

\* in_scope without the thread test
in_scope_any_thread(e) == e.channel \in MonitoredChannels

\* in_scope without the channel test
in_scope_any_channel(e) == e.thread_ts = NoThread \/ e.thread_ts = e.ts

\* (channel_id == ... or channel_id == ...) and (not thread_ts or thread_ts == ts)
in_scope(e) ==
    /\ e.channel \in MonitoredChannels
    /\ (e.thread_ts = NoThread \/ e.thread_ts = e.ts)

\* get_llm_answer up to requests.post: the answer it returns without a
\* request (called = FALSE), or the request is sent
get_llm_answer_start(text) ==
    IF ~Truthy(text) THEN [called |-> FALSE, answer |-> None]
    ELSE LET direct_answer == find_answer(qa_data, text)
         IN  IF Truthy(direct_answer)
             THEN [called |-> FALSE, answer |-> direct_answer]
             ELSE [called |-> TRUE, answer |-> None]

\* the handler returns at once
dropped == [pc |-> "returned", answer |-> None, calls |-> 0]

\* the handler goes on to answer = get_llm_answer(text)
resolving(text) ==
    LET r == get_llm_answer_start(text)
    IN  IF r.called THEN [pc |-> "llm", answer |-> None, calls |-> 1]
        ELSE [pc |-> "reply", answer |-> r.answer, calls |-> 0]

\* app_enter without the guard of the empty text
app_enter_no_text_test(e) ==
    IF ~in_scope(e) THEN dropped
    ELSE IF e.user = BOT_ID THEN dropped
    ELSE resolving(e.text)

\* app_enter without the test of the bot's own messages
app_enter_no_self_test(e) ==
    IF ~in_scope(e) THEN dropped
    ELSE IF ~Truthy(e.text) THEN dropped
    ELSE resolving(e.text)

\* How far app.py's message gets before its first blocking call: the filters,
\* the guards, and get_llm_answer up to requests.post.
app_enter(e) ==
    IF ~in_scope(e) THEN dropped
    ELSE IF e.user = BOT_ID THEN dropped
    ELSE IF ~Truthy(e.text) THEN dropped
    ELSE resolving(e.text)

\* bot_enter without the test of the bot's own messages
bot_enter_no_self_test(e) ==
    IF e.channel = BotChannel
    THEN [pc |-> "reply", answer |-> getChatGptResponse(e.text), calls |-> 0]
    ELSE dropped

\* bot.py's message up to chat_postMessage
bot_enter(e) ==
    IF e.channel = BotChannel /\ BOT_ID # e.user
    THEN [pc |-> "reply", answer |-> getChatGptResponse(e.text), calls |-> 0]
    ELSE dropped

enter(e) == IF program = "app" THEN app_enter(e) ELSE bot_enter(e)

\* the invocation the transport starts for event e, run to its first blocking call
started(e) ==
    LET s == enter(e)
    IN  [event |-> e, pc |-> s.pc, answer |-> s.answer, llm |-> "none",
         calls |-> s.calls, posts |-> <<>>]

\* invs with one more invocation, named id
start(id, e) == [j \in DOMAIN invs \cup {id} |-> IF j = id THEN started(e) ELSE invs[j]]

\* Invocations are named by number: FirstId(ts) is the first delivery of the
\* message written at ts, the next numbers its redeliveries, and EchoId(i) the
\* delivery of the message invocation i posted.
IdStep == MaxEvents + 1
EchoStep == IdStep * (2 * MaxEvents + 1)
FirstId(ts) == IdStep * ts
EchoId(i) == i + EchoStep
Deliveries(i) == {j \in DOMAIN invs : j >= i /\ j < i + IdStep}

\* The transport delivers the next message: a handler invocation starts.
message ==
    /\ pending # <<>>
    /\ invs' = start(FirstId(Head(pending).ts), Head(pending))
    /\ pending' = Tail(pending)
    /\ UNCHANGED <<program, qa_file, qa_data>>

\* What the external service does with the one request.
LLMFailures == {"timeout", "network", "status", "malformed", "nochoices"}
LLMContents ==
    {<<>>, <<" ">>, <<"a">>, <<" ", "a", " ">>, Sentinel,
     <<" ">> \o Sentinel \o <<" ">>}

\* get_llm_answer from the return of requests.post on
llm_result(kind, content) == IF kind = "ok" THEN strip(content) ELSE None

\* llm_response of a request without its timeout, to a service that never
\* answers: requests.post does not return
llm_response_blocking(i) ==
    /\ invs[i].pc = "llm"
    /\ FALSE
    /\ UNCHANGED vars

\* llm_response that stores the answer of the external service in the
\* knowledge base
llm_response_caching(i) ==
    /\ invs[i].pc = "llm"
    /\ \E kind \in LLMFailures \cup {"ok"}, content \in LLMContents :
         /\ kind # "ok" => content = <<>>
         /\ invs' = [invs EXCEPT ![i].pc = "reply",
                                 ![i].llm = IF kind = "ok" THEN "ok" ELSE "failed",
                                 ![i].answer = llm_result(kind, content)]
         /\ qa_data' = IF kind = "ok"
                       THEN Append(qa_data, [question |-> invs[i].event.text,
                                             answer |-> llm_result(kind, content)])
                       ELSE qa_data
    /\ UNCHANGED <<program, qa_file, pending>>

\* llm_response with the request sent again after a failure
llm_response_retrying(i) ==
    /\ invs[i].pc = "llm"
    /\ \E kind \in LLMFailures \cup {"ok"}, content \in LLMContents :
         /\ kind # "ok" => content = <<>>
         /\ invs' = IF kind = "ok"
                    THEN [invs EXCEPT ![i].pc = "reply", ![i].llm = "ok",
                                      ![i].answer = llm_result(kind, content)]
                    ELSE [invs EXCEPT ![i].llm = "failed",
                                      ![i].calls = invs[i].calls + 1]
    /\ UNCHANGED <<program, qa_file, qa_data, pending>>

llm_response(i) ==
    /\ invs[i].pc = "llm"
    /\ \E kind \in LLMFailures \cup {"ok"}, content \in LLMContents :
         /\ kind # "ok" => content = <<>>
         /\ invs' = [invs EXCEPT ![i].pc = "reply",
                                 ![i].llm = IF kind = "ok" THEN "ok" ELSE "failed",
                                 ![i].answer = llm_result(kind, content)]
    /\ UNCHANGED <<program, qa_file, qa_data, pending>>

\* post with thread_ts taken from the event's thread_ts instead of its ts
post_in_event_thread(i, text, ok) ==
    [channel |-> invs[i].event.channel, text |-> text,
     thread_ts |-> invs[i].event.thread_ts, ok |-> ok]

\* one chat_postMessage call of invocation i
post(i, text, ok) ==
    [channel |-> invs[i].event.channel, text |-> text,
     thread_ts |-> invs[i].event.ts, ok |-> ok]

\* app_replies without the test of the sentinel
app_replies_always(answer) == TRUE

\* app.py: if answer != "No relevant answer found."
app_replies(answer) == answer # Sentinel

\* after_reply with the except branch entered after a delivered answer too
after_reply_apologising(i, ok) ==
    IF program = "app"
    THEN [pc |-> "apology", posts |-> <<post(i, answer_text(invs[i].answer), ok)>>]
    ELSE [pc |-> IF ok THEN "returned" ELSE "raised",
          posts |-> <<post(i, invs[i].answer, ok)>>]

\* the state of invocation i after the reply step
after_reply(i, ok) ==
    IF program = "app"
    THEN IF app_replies(invs[i].answer)
         THEN [pc |-> IF ok THEN "returned" ELSE "apology",
               posts |-> <<post(i, answer_text(invs[i].answer), ok)>>]
         ELSE [pc |-> "returned", posts |-> <<>>]
    ELSE [pc |-> IF ok THEN "returned" ELSE "raised",
          posts |-> <<post(i, invs[i].answer, ok)>>]

reply(i) ==
    /\ invs[i].pc = "reply"
    /\ \E ok \in BOOLEAN :
         LET s == after_reply(i, ok)
         IN  invs' = [invs EXCEPT ![i].pc = s.pc,
                                  ![i].posts = invs[i].posts \o s.posts]
    /\ UNCHANGED <<program, qa_file, qa_data, pending>>

\* after_apology with the apology sent again when its delivery fails
after_apology_retrying(i, ok) ==
    [pc |-> IF ok THEN "returned" ELSE "apology", posts |-> <<post(i, apology_text, ok)>>]

\* after_apology without the inner try
after_apology_uncaught(i, ok) ==
    [pc |-> IF ok THEN "returned" ELSE "raised", posts |-> <<post(i, apology_text, ok)>>]

\* the state of invocation i after the except branch
after_apology(i, ok) ==
    [pc |-> "returned", posts |-> <<post(i, apology_text, ok)>>]

apology(i) ==
    /\ invs[i].pc = "apology"
    /\ \E ok \in BOOLEAN :
         LET s == after_apology(i, ok)
         IN  invs' = [invs EXCEPT ![i].pc = s.pc,
                                  ![i].posts = invs[i].posts \o s.posts]
    /\ UNCHANGED <<program, qa_file, qa_data, pending>>

----------------------------------------------------------------------------
(* The transport *)

\* deliveries of users' messages, made or still to come
UserDeliveries == Len(pending) + Cardinality({j \in DOMAIN invs : j < EchoStep})

\* Slack delivers the event of invocation i, the first delivery of a user's
\* message, once more (it does so when a delivery was not acknowledged in
\* time): another invocation starts.
retry(i) ==
    /\ i < EchoStep /\ i % IdStep = 0
    /\ UserDeliveries < MaxEvents
    /\ invs' = start(i + Cardinality(Deliveries(i)), invs[i].event)
    /\ UNCHANGED <<program, qa_file, qa_data, pending>>

\* the event Slack makes of the message p that invocation i posted
echo_event(i, p) ==
    [channel |-> p.channel, user |-> BOT_ID, text |-> p.text,
     ts |-> EchoId(i), thread_ts |-> p.thread_ts]

\* Slack delivers the bot's own message, posted in the thread of the event it
\* answers, as a new event: another invocation starts.
echo(i) ==
    /\ EchoId(i) \notin DOMAIN invs
    /\ \E k \in 1..Len(invs[i].posts) :
         /\ invs[i].posts[k].ok
         /\ invs' = start(EchoId(i), echo_event(i, invs[i].posts[k]))
    /\ UNCHANGED <<program, qa_file, qa_data, pending>>

----------------------------------------------------------------------------
(* Inputs *)

Chars == {"a", "A", " "}
Strs(n) == UNION {[1..k -> Chars] : k \in 0..n}

\* Knowledge bases: two stored questions that normalize to "a", with every
\* kind of stored answer.
KBQuestions == {<<"a">>, <<"A", " ">>}
KBAnswers == {Missing, <<>>, <<"x">>, Sentinel}
KBEntries == [question : KBQuestions, answer : KBAnswers]
KnowledgeBases == UNION {[1..k -> KBEntries] : k \in 0..MaxKB}

SampleKB == <<[question |-> <<"A", " ">>, answer |-> <<"x">>]>>
SampleTexts == {<<"a">>, <<"a", "a">>}

\* qa.json: a list of entries that loads, or a file that is missing, is not
\* JSON as a whole, or cannot be read, whatever entries its text holds
Files ==
    [kind : {"ok"}, data : KnowledgeBases] \cup [kind : LoadFailures, data : {SampleKB}]

Channels == MonitoredChannels \cup {BotChannel}
Users == {BOT_ID, "U1"}

\* The k-th message written has timestamp 2k; a message written inside a
\* thread names an older message, 2k - 1.  With all, thread_ts may also be the
\* message's own timestamp.
NewEvents(k, users, texts, all) ==
    [channel : Channels, user : users, text : texts, ts : {2 * k},
     thread_ts : {NoThread, 2 * k - 1} \cup (IF all THEN {2 * k} ELSE {})]

\* the sequences of at most n messages
Feeds(n, users, texts, all) ==
    UNION {{f \in [1..k -> UNION {NewEvents(j, users, texts, all) : j \in 1..k}] :
              \A j \in 1..k : f[j].ts = 2 * j} : k \in 1..n}

\* Concurrent handling: up to MaxEvents deliveries of a user's messages
\* (messages and redeliveries) and the bot's own messages coming back.
Init ==
    /\ program \in {"app", "bot"}
    /\ qa_file = [kind |-> "ok", data |-> SampleKB]
    /\ qa_data = load_data(qa_file)
    /\ pending \in Feeds(MaxEvents, {"U1"}, SampleTexts, FALSE)
    /\ invs = << >>

\* One message of any author, text and place, over any knowledge base.
InitOne ==
    /\ program \in {"app", "bot"}
    /\ qa_file \in Files
    /\ qa_data = load_data(qa_file)
    /\ pending \in Feeds(1, Users, Strs(MaxLen) \cup {None}, TRUE)
    /\ invs = << >>

Next ==
    \/ message
    \/ \E i \in DOMAIN invs : llm_response(i)
    \/ \E i \in DOMAIN invs : reply(i)
    \/ \E i \in DOMAIN invs : apology(i)
    \/ \E i \in DOMAIN invs : retry(i)
    \/ \E i \in DOMAIN invs : echo(i)

Spec == Init /\ [][Next]_vars

\* Lookups: knowledge bases whose questions have equal normal forms ("a",
\* "A ") or contain one another ("a", "aa"), and whose answers tell the
\* entries apart.
FindQuestions == {<<"a">>, <<"A", " ">>, <<"a", "a">>}
FindAnswers == {<<"x">>, <<"y">>}
FindFiles ==
    [kind : {"ok"},
     data : UNION {[1..k -> [question : FindQuestions, answer : FindAnswers]] :
                     k \in 0..MaxKB}]

\* One top-level message of a user in a monitored channel, of any text, over
\* any of these knowledge bases.
InitFind ==
    /\ program = "app"
    /\ qa_file \in FindFiles
    /\ qa_data = load_data(qa_file)
    /\ pending \in {f \in Feeds(1, {"U1"}, Strs(MaxLen), FALSE) :
                       in_scope(f[1])}
    /\ invs = << >>

\* one invocation of a handler, from delivery to return
NextOne ==
    \/ message
    \/ \E i \in DOMAIN invs : llm_response(i)
    \/ \E i \in DOMAIN invs : reply(i)
    \/ \E i \in DOMAIN invs : apology(i)

SpecOne == InitOne /\ [][NextOne]_vars

SpecFind == InitFind /\ [][NextOne]_vars

\* The blocking calls return: requests.post has timeout=30 and answers or
\* raises within it, chat_postMessage answers or raises; between them the
\* handler is straight-line code.  So while some invocation has a step to
\* take, a step of some invocation is taken.  (An invocation's step stays
\* enabled until it is taken, so this is no more than fairness to each
\* invocation.)  Nothing is assumed of the transport.
HandlersRun ==
    WF_vars(\E i \in DOMAIN invs : llm_response(i) \/ reply(i) \/ apology(i))

SpecFair == Spec /\ HandlersRun

----------------------------------------------------------------------------
(* Properties *)

Ids == DOMAIN invs

\* the deduplication identity of an event: its channel and its timestamp
EventKey(e) == <<e.channel, e.ts>>

\* the event passes app.py's channel, thread and self filters
PassesFilters(e) == in_scope(e) /\ e.user # BOT_ID

\* invocation i was processed: it called the external service or PostMessage
Acted(i) == invs[i].calls > 0 \/ invs[i].posts # <<>>

Done(i) == invs[i].pc \in {"returned", "raised"}

OkPosts(i) == {k \in 1..Len(invs[i].posts) : invs[i].posts[k].ok}

RECURSIVE SumOkPosts(_)
SumOkPosts(S) ==
    IF S = {} THEN 0
    ELSE LET i == CHOOSE x \in S : TRUE
         IN  Cardinality(OkPosts(i)) + SumOkPosts(S \ {i})

\* the entries of the knowledge base whose normalized question is that of text
Matches(text) ==
    {k \in 1..Len(qa_data) :
        strip(lower(dict_get(qa_data[k].question, <<>>))) = strip(lower(text))}

FirstMatch(text) == CHOOSE k \in Matches(text) : \A j \in Matches(text) : k <= j

\* app.py resolves the text of invocation i: a message that passed the filters
\* and has a text
Resolves(i) ==
    program = "app" /\ PassesFilters(invs[i].event) /\ Truthy(invs[i].event.text)

\* C1: of two invocations of app.py's handler for the same EventKey that pass
\* the filters, only one is processed (it alone calls the external service
\* and PostMessage); the other is dropped.
C1_OneProcessedPerKey ==
    \A i, j \in Ids :
        (/\ program = "app"
         /\ i # j
         /\ EventKey(invs[i].event) = EventKey(invs[j].event)
         /\ PassesFilters(invs[i].event) /\ PassesFilters(invs[j].event))
        => ~(Acted(i) /\ Acted(j))

\* C2: once app.py's handler has completed for an event, a delivery of the
\* same event starts an invocation that is dropped: it has made no call to
\* the external service and returns without a reply.
C2_RedeliveryDropped ==
    [][\A j \in DOMAIN invs' \ DOMAIN invs :
         (/\ program = "app"
          /\ \E i \in DOMAIN invs :
                /\ invs[i].event = invs'[j].event
                /\ invs[i].pc = "returned"
                /\ Acted(i))
         => (invs'[j].calls = 0 /\ invs'[j].pc = "returned")]_vars

\* C3: a question that matches a knowledge-base entry is answered with the
\* stored answer of the first matching entry, whatever it is, and the
\* external service is not called.
C3_ExactMatchWins ==
    \A i \in Ids :
        (Resolves(i) /\ Matches(invs[i].event.text) # {})
        => /\ invs[i].calls = 0
           /\ invs[i].llm = "none"
           /\ invs[i].pc # "llm"
           /\ invs[i].answer =
                dict_get(qa_data[FirstMatch(invs[i].event.text)].answer, None)

\* C4: a question that matches no knowledge-base entry makes exactly one call
\* to the external service, whatever the call's outcome.
C4_OneExternalCall ==
    \A i \in Ids :
        (Resolves(i) /\ Matches(invs[i].event.text) = {}) => invs[i].calls = 1

\* a question without a match whose one call failed, and the handler returned
C4_Witness ==
    \E i \in Ids :
        /\ Resolves(i) /\ Matches(invs[i].event.text) = {}
        /\ invs[i].llm = "failed" /\ invs[i].pc = "returned"

\* C5: when the external service fails, every message app.py posts for the
\* event is the fixed apology.
C5_FailureGivesApology ==
    \A i \in Ids :
        (program = "app" /\ invs[i].llm = "failed")
        => \A k \in 1..Len(invs[i].posts) : invs[i].posts[k].text = apology_text

C7_NeverRaises ==
    \A i \in Ids : program = "app" => invs[i].pc # "raised"

\* the external service failed, the reply and the apology both failed to be
\* delivered, and the handler returned
C7_Witness ==
    \E i \in Ids :
        /\ program = "app" /\ invs[i].llm = "failed" /\ invs[i].pc = "returned"
        /\ Len(invs[i].posts) = 2
        /\ ~invs[i].posts[1].ok /\ ~invs[i].posts[2].ok

\* C8: for an event written by the bot itself neither handler makes a
\* PostMessage call (nor a call to the external service).
C8_NoReplyToSelf ==
    \A i \in Ids :
        invs[i].event.user = BOT_ID
        => invs[i].posts = <<>> /\ invs[i].calls = 0 /\ invs[i].pc = "returned"

\* a message of the bot that passes every other test of its handler
C8_Witness ==
    \E i \in Ids :
        /\ invs[i].event.user = BOT_ID /\ invs[i].pc = "returned"
        /\ Truthy(invs[i].event.text)
        /\ \/ program = "app" /\ in_scope(invs[i].event)
           \/ program = "bot" /\ invs[i].event.channel = BotChannel

\* C9: the bot's own messages coming back cause no reply, so the replies
\* posted never outnumber the events written by other users.
C9_NoReplyLoop ==
    /\ SumOkPosts(Ids) <= Cardinality({i \in Ids : invs[i].event.user # BOT_ID})
    /\ \A i \in Ids : invs[i].event.user = BOT_ID => invs[i].posts = <<>>

\* a reply came back to the handler, in the channel the handler answers in,
\* and the handler returned
C9_Witness ==
    \E i \in Ids :
        /\ EchoId(i) \in Ids
        /\ invs[EchoId(i)].event.user = BOT_ID
        /\ invs[EchoId(i)].event.thread_ts = invs[i].event.ts
        /\ invs[EchoId(i)].pc = "returned"

\* the channels a program answers in
Monitored == IF program = "app" THEN MonitoredChannels ELSE {BotChannel}

\* C10: an event of a channel outside the monitored set has no effect: no
\* PostMessage call, no call to the external service, and the handler returns
\* at once.
C10_OutOfScopeNoEffect ==
    \A i \in Ids :
        invs[i].event.channel \notin Monitored
        => /\ invs[i].posts = <<>> /\ invs[i].calls = 0
           /\ invs[i].llm = "none" /\ invs[i].pc = "returned"

\* a top-level message of a user, with a text, outside the monitored channels
C10_Witness ==
    \E i \in Ids :
        /\ program = "app"
        /\ invs[i].event.channel \notin MonitoredChannels
        /\ invs[i].event.user # BOT_ID /\ Truthy(invs[i].event.text)
        /\ invs[i].event.thread_ts = NoThread
        /\ invs[i].pc = "returned"

\* invocation i went past the guards of app.py's handler, to get_llm_answer
NotDropped(i) ==
    \/ invs[i].pc # "returned" \/ invs[i].calls > 0
    \/ invs[i].posts # <<>> \/ invs[i].answer # None

InThread(e) == e.thread_ts # NoThread /\ e.thread_ts # e.ts

\* C11: app.py handles only top-level messages.  For an event whose thread_ts
\* is present and differs from its ts the handler makes no PostMessage call
\* and no call to the external service; an event whose thread_ts is absent or
\* equal to its ts, and which passes the other guards, goes on to resolution.
C11_TopLevelOnly ==
    \A i \in Ids :
        program = "app"
        => /\ InThread(invs[i].event)
              => /\ invs[i].posts = <<>> /\ invs[i].calls = 0
                 /\ invs[i].llm = "none" /\ invs[i].pc = "returned"
           /\ (/\ ~InThread(invs[i].event)
               /\ invs[i].event.channel \in MonitoredChannels
               /\ invs[i].event.user # BOT_ID
               /\ Truthy(invs[i].event.text))
              => NotDropped(i)

\* a user's message with a text, written inside a thread of a monitored
\* channel, was delivered and the handler returned
C11_Witness ==
    \E i \in Ids :
        /\ program = "app" /\ InThread(invs[i].event)
        /\ invs[i].event.channel \in MonitoredChannels
        /\ invs[i].event.user # BOT_ID /\ Truthy(invs[i].event.text)
        /\ invs[i].pc = "returned"

\* C12 as claimed: after a PostMessage call of app.py's handler that failed,
\* the invocation makes no further PostMessage call.
C12_FailedPostIsLast ==
    \A i \in Ids :
        program = "app"
        => \A k \in 1..Len(invs[i].posts) :
              ~invs[i].posts[k].ok => Len(invs[i].posts) = k

\* C12 as amended: when the delivery of the answer fails, app.py's handler
\* attempts one further PostMessage call, the fixed apology (never the answer
\* again); when the delivery of the apology fails, it makes no further call
\* and returns.
C12_FailedPostThenOneApology ==
    \A i \in Ids :
        program = "app"
        => /\ Len(invs[i].posts) <= 2
           /\ (invs[i].posts # <<>> /\ ~invs[i].posts[1].ok)
              => /\ invs[i].posts[1].text = answer_text(invs[i].answer)
                 /\ \/ Len(invs[i].posts) = 1 /\ invs[i].pc = "apology"
                    \/ /\ Len(invs[i].posts) = 2 /\ invs[i].pc = "returned"
                       /\ invs[i].posts[2].text = apology_text
           /\ Len(invs[i].posts) = 2 => ~invs[i].posts[1].ok

\* the delivery of the answer failed, the apology was delivered, and the
\* handler returned
C12_Witness ==
    \E i \in Ids :
        /\ program = "app" /\ invs[i].pc = "returned"
        /\ Len(invs[i].posts) = 2
        /\ ~invs[i].posts[1].ok /\ invs[i].posts[2].ok

\* C13: for an event whose text is empty or absent app.py's handler makes no
\* call to the external service and no PostMessage call, and get_llm_answer
\* itself returns None for such a text without sending a request.
C13_EmptyTextIgnored ==
    \A i \in Ids :
        (program = "app" /\ ~Truthy(invs[i].event.text))
        => /\ invs[i].posts = <<>> /\ invs[i].calls = 0
           /\ invs[i].llm = "none" /\ invs[i].pc = "returned"
           /\ get_llm_answer_start(invs[i].event.text) =
                [called |-> FALSE, answer |-> None]

\* a top-level message of a user in a monitored channel whose text is absent
\* was delivered and the handler returned
C13_Witness ==
    \E i \in Ids :
        /\ program = "app" /\ PassesFilters(invs[i].event)
        /\ invs[i].event.text = None
        /\ invs[i].pc = "returned"

AnswerPosts(i) ==
    {k \in 1..Len(invs[i].posts) : invs[i].posts[k].text # apology_text}

ApologyPosts(i) ==
    {k \in 1..Len(invs[i].posts) : invs[i].posts[k].text = apology_text}

\* invocation i took no step of the pipeline twice: at most one request to
\* the external service, one post of the answer, one post of the apology
StepsAtMostOnce(i) ==
    /\ invs[i].calls <= 1
    /\ Cardinality(AnswerPosts(i)) <= 1
    /\ Cardinality(ApologyPosts(i)) <= 1

\* C14: when the blocking calls return, every handler invocation started
\* reaches a terminal state and stays there, whatever the external service
\* does (a timeout and a connection failure included), and no invocation
\* takes a step of the pipeline twice.
C14_EveryInvocationEnds ==
    /\ [](\A i \in Ids : StepsAtMostOnce(i))
    /\ <>[](\A i \in Ids : Done(i))

\* an invocation whose request to the external service failed has returned,
\* while another delivery of the same message was handled too
C14_Witness ==
    \E i, j \in Ids :
        /\ i # j /\ program = "app"
        /\ invs[i].llm = "failed" /\ invs[i].pc = "returned"
        /\ Done(j)

\* C15: in every reachable state, under any interleaving of the handler
\* invocations, qa_database.qa_data is the sequence the load at startup
\* produced: no step changes, reorders or appends entries.
C15_KnowledgeBaseImmutable == qa_data = load_data(qa_file)

\* two deliveries were handled, one answered from the knowledge base (read by
\* find_answer) and one by the external service (which is sent the knowledge
\* base), and the knowledge base is the one loaded
C15_Witness ==
    \E i, j \in Ids :
        /\ program = "app" /\ qa_data = SampleKB
        /\ invs[i].pc = "returned" /\ invs[j].pc = "returned"
        /\ invs[i].calls = 0 /\ invs[i].posts # <<>>
        /\ invs[j].llm = "ok" /\ invs[j].posts # <<>>

\* C16: when the knowledge base has no match and the external service answers
\* with a content that is empty once trimmed, app.py does not post the answer
\* template around the empty answer.
C16_EmptyResponseNotAnswered ==
    \A i \in Ids :
        (program = "app" /\ invs[i].llm = "ok" /\ invs[i].answer = <<>>)
        => \A k \in 1..Len(invs[i].posts) :
              invs[i].posts[k].text # answer_text(<<>>)

\* the answer of the first entry, in load order, whose normalized question is
\* that of text; None when there is none
FirstMatchAnswer(text) ==
    IF Matches(text) = {} THEN None
    ELSE dict_get(qa_data[FirstMatch(text)].answer, None)

\* C17: find_answer returns the answer of the first entry, in load order,
\* whose lower-cased and trimmed question equals the lower-cased and trimmed
\* input, and None when no entry's does (an entry whose question only
\* contains the input, or is contained in it, does not match); the handler
\* that resolves the text replies with that answer.
C17_FirstExactMatch ==
    /\ \A k \in 1..Len(pending) :
          find_answer(qa_data, pending[k].text) = FirstMatchAnswer(pending[k].text)
    /\ \A i \in Ids :
          /\ find_answer(qa_data, invs[i].event.text)
                = FirstMatchAnswer(invs[i].event.text)
          /\ (Resolves(i) /\ Truthy(FirstMatchAnswer(invs[i].event.text)))
             => /\ invs[i].calls = 0
                /\ invs[i].answer = FirstMatchAnswer(invs[i].event.text)

\* a question two entries match (their stored questions differ, their normal
\* forms are equal), with different answers, was answered and the handler
\* returned
C17_Witness ==
    \E i \in Ids :
        /\ Resolves(i) /\ invs[i].pc = "returned"
        /\ Matches(invs[i].event.text) = {1, 2}
        /\ qa_data[1].question # qa_data[2].question
        /\ dict_get(qa_data[1].answer, None) # dict_get(qa_data[2].answer, None)
        /\ Truthy(dict_get(qa_data[1].answer, None))
        /\ Truthy(dict_get(qa_data[2].answer, None))

\* C18: whatever makes the load of qa.json fail, the knowledge base is the
\* empty sequence and the program serves; every message with a text that
\* passes the filters is then resolved by one request to the external
\* service, never by a stored answer.
C18_LoadFailureGivesEmptyKB ==
    qa_file.kind \in LoadFailures
    => /\ qa_data = <<>>
       /\ \A i \in Ids :
             Resolves(i) => /\ invs[i].calls = 1
                            /\ find_answer(qa_data, invs[i].event.text) = None
                            /\ invs[i].pc # "llm" => invs[i].llm # "none"

\* qa.json is not JSON, its text holds an entry for the question asked, and
\* the question was answered by the external service
C18_Witness ==
    \E i \in Ids :
        /\ qa_file.kind = "JSONDecodeError"
        /\ \E k \in 1..Len(qa_file.data) :
              normalize(qa_file.data[k].question) = normalize(invs[i].event.text)
        /\ Resolves(i) /\ invs[i].llm = "ok" /\ invs[i].pc = "returned"
        /\ invs[i].posts # <<>>

\* C19: every PostMessage call of an invocation, of the answer and of the
\* apology alike, names the channel of the invocation's own event and is
\* threaded under that event's own ts, whatever other events are handled at
\* the same time.
C19_RepliesInOwnThread ==
    \A i \in Ids :
        \A k \in 1..Len(invs[i].posts) :
            /\ invs[i].posts[k].channel = invs[i].event.channel
            /\ invs[i].posts[k].thread_ts = invs[i].event.ts

\* two messages of different channels were being handled at the same time;
\* one got its answer, the other a failed answer and then the apology
C19_Witness ==
    \E i, j \in Ids :
        /\ invs[i].event.channel # invs[j].event.channel
        /\ invs[i].event.ts # invs[j].event.ts
        /\ Len(invs[i].posts) = 1 /\ invs[i].posts[1].ok
        /\ Len(invs[j].posts) = 2
        /\ invs[j].posts[2].text = apology_text

\* C20: within one invocation at most one PostMessage call succeeds and at
\* most two are attempted; the apology is attempted only as the second call,
\* after the call that posts the answer failed, so no invocation delivers
\* both an answer and an apology.
C20_AtMostOneReplyDelivered ==
    \A i \in Ids :
        /\ Cardinality(OkPosts(i)) <= 1
        /\ Len(invs[i].posts) <= 2
        /\ \A k \in ApologyPosts(i) :
              /\ program = "app" /\ k = 2
              /\ ~invs[i].posts[1].ok
              /\ invs[i].posts[1].text = answer_text(invs[i].answer)
        /\ invs[i].pc = "apology" => (Len(invs[i].posts) = 1 /\ ~invs[i].posts[1].ok)

\* the external service answered, the delivery of the answer failed, the
\* apology was delivered in its place, and the handler returned
C20_Witness ==
    \E i \in Ids :
        /\ program = "app" /\ invs[i].llm = "ok" /\ invs[i].pc = "returned"
        /\ Truthy(invs[i].answer)
        /\ ApologyPosts(i) = {2} /\ OkPosts(i) = {2}

=============================================================================
